---- MODULE Spec2Model ----
(***************************************************************************)
(* Model of django-oscar's offer engine, oscar/apps/offer/models.py:       *)
(* conditional offers, their conditions and benefits applied to a basket,  *)
(* and the usage counters of an offer.                                     *)
(*                                                                         *)
(* Money is counted in whole cents (the source's Decimal fields hold two   *)
(* decimal places).  A percentage value is counted in whole percents.      *)
(* A field that is NULL / None in the source holds None here.              *)
(***************************************************************************)
EXTENDS Integers, Sequences, FiniteSets, TLC

VARIABLES
    lines,      \* basket.all_lines(): sequence of basket lines
    prev,       \* the lines as they were before the observed apply_benefit
    last,       \* the offer of the observed apply_benefit (NoOffer before it)
    result,     \* the ApplicationResult of the observed apply_benefit
    earlier,    \* number of offers applied to the basket before the observed one
    offer,      \* a ConditionalOffer object in memory
    db,         \* the row of that offer in the database
    ledger,     \* OrderDiscount ledger: user -> applications of the offer
    op,         \* the latest operation on the offer
    status0,    \* the status the offer had when its latest save() began
    offer0,     \* the offer as it was created
    tally,      \* what the record_usage calls so far were given, summed
    local,      \* concurrent checkouts: each one's own ConditionalOffer object
    pc,         \* concurrent checkouts: each one's position
    rangeObj,   \* a Range object: its stored definition and its memoized ids
    condObj     \* a condition object: its fields, its memoized matches, and
                \* what it answered for the basket as it is now

basketVars == <<lines, prev, last, result, earlier>>
offerVars == <<offer, db, ledger, op, status0, offer0, tally>>
raceVars == <<local, pc>>
rangeVars == <<rangeObj>>
condVars == <<condObj>>
vars == <<lines, prev, last, result, earlier, offer, db, ledger, op, status0,
          offer0, tally, local, pc, rangeObj, condObj>>

None == -1

Min(a, b) == IF a < b THEN a ELSE b
Max(a, b) == IF a > b THEN a ELSE b

RECURSIVE SumSeq(_)
SumSeq(s) == IF s = <<>> THEN 0 ELSE Head(s) + SumSeq(Tail(s))

(***************************************************************************)
(* Bounds of the exploration.                                              *)
(***************************************************************************)
MaxQty == 3
MaxEarlier == 1

(***************************************************************************)
(* Catalogue (external collaborator): what a basket line's product says.   *)
(* Product 5 is free, product 6 is not discountable.  None of them is a    *)
(* child product.                                                          *)
(***************************************************************************)
Catalogue ==
    << [id |-> 1, price |-> 1000, is_discountable |-> TRUE,  stockrecord |-> TRUE,
        parent |-> None, product_class_id |-> 1, categories |-> {1}],
       [id |-> 2, price |-> 2000, is_discountable |-> TRUE,  stockrecord |-> TRUE,
        parent |-> None, product_class_id |-> 1, categories |-> {1}],
       [id |-> 3, price |-> 3000, is_discountable |-> TRUE,  stockrecord |-> TRUE,
        parent |-> None, product_class_id |-> 1, categories |-> {3}],
       [id |-> 4, price |-> 5,    is_discountable |-> TRUE,  stockrecord |-> TRUE,
        parent |-> None, product_class_id |-> 2, categories |-> {}],
       [id |-> 5, price |-> 0,    is_discountable |-> TRUE,  stockrecord |-> TRUE,
        parent |-> None, product_class_id |-> 2, categories |-> {}],
       [id |-> 6, price |-> 1000, is_discountable |-> FALSE, stockrecord |-> TRUE,
        parent |-> None, product_class_id |-> 2, categories |-> {}] >>

Products == 1..Len(Catalogue)

\* category.is_descendant_of(test_category): the category tree of the catalogue
CategoryParent == <<None, 1, 2>>

RECURSIVE is_descendant_of(_, _)
is_descendant_of(category, test_category) ==
    LET up == CategoryParent[category]
    IN  IF up = None THEN FALSE
        ELSE up = test_category \/ is_descendant_of(up, test_category)

(***************************************************************************)
(* Basket line (oscar.apps.basket): quantity, the quantity already         *)
(* consumed by offers, and the discount applied so far.                    *)
(***************************************************************************)
NewLine(p, q) == [product |-> p, quantity |-> q, affected |-> 0, discount |-> 0]

quantity_without_discount(line) == line.quantity - line.affected

is_available_for_discount(line) == quantity_without_discount(line) > 0

\* line.discount(discount, quantity, incl_tax=False)
line_discount(line, discount, quantity) ==
    [line EXCEPT !.discount = @ + discount, !.affected = @ + quantity]

\* line.consume(quantity)
line_consume(line, quantity) == [line EXCEPT !.affected = @ + quantity]

unit_price(line) == Catalogue[line.product].price

apply_discount(ls, i, discount, quantity) ==
    [ls EXCEPT ![i] = line_discount(@, discount, quantity)]

consume(ls, i, quantity) == [ls EXCEPT ![i] = line_consume(@, quantity)]

(***************************************************************************)
(* Range                                                                   *)
(***************************************************************************)
\* Range.contains_product, for a range without a proxy class
\* variant: includes_all_products is tested before the excluded products
contains_product_AllFirst(range, product0) ==
    LET product == IF product0.parent # None THEN Catalogue[product0.parent]
                   ELSE product0
    IN  IF range.includes_all_products THEN TRUE
        ELSE IF product.id \in range.excluded_product_ids THEN FALSE
        ELSE IF product.product_class_id \in range.class_ids THEN TRUE
        ELSE IF product.id \in range.included_product_ids THEN TRUE
        ELSE \E category \in product.categories :
                \E test_category \in range.included_categories :
                    \/ category = test_category
                    \/ is_descendant_of(category, test_category)

contains_product(range, product0) ==
    LET product == IF product0.parent # None THEN Catalogue[product0.parent]
                   ELSE product0
    IN  IF product.id \in range.excluded_product_ids THEN FALSE
        ELSE IF range.includes_all_products THEN TRUE
        ELSE IF product.product_class_id \in range.class_ids THEN TRUE
        ELSE IF product.id \in range.included_product_ids THEN TRUE
        ELSE \E category \in product.categories :
                \E test_category \in range.included_categories :
                    \/ category = test_category
                    \/ is_descendant_of(category, test_category)

RangeAll ==
    [includes_all_products |-> TRUE, included_product_ids |-> {},
     excluded_product_ids |-> {}, class_ids |-> {}, included_categories |-> {}]

\* every product but product 2: product 1 by its id, product 3 by its
\* category (a descendant of category 2), products 4 to 6 by their class
RangeSome ==
    [includes_all_products |-> FALSE, included_product_ids |-> {1},
     excluded_product_ids |-> {}, class_ids |-> {2}, included_categories |-> {2}]

Ranges == {RangeAll, RangeSome}

(***************************************************************************)
(* Sorting of (price, line) tuples: Python's sorted() is stable, also with *)
(* reverse=True, so lines of equal price stay in basket order.             *)
(***************************************************************************)
Before(ls, i, j, reverse) ==
    LET pi == unit_price(ls[i])
        pj == unit_price(ls[j])
    IN  IF pi = pj THEN i < j ELSE IF reverse THEN pi > pj ELSE pi < pj

RECURSIVE SortedLines(_, _, _)
SortedLines(ls, S, reverse) ==
    IF S = {} THEN <<>>
    ELSE LET first == CHOOSE i \in S : \A j \in S \ {i} : Before(ls, i, j, reverse)
         IN  <<first>> \o SortedLines(ls, S \ {first}, reverse)

(***************************************************************************)
(* Condition                                                               *)
(***************************************************************************)
COUNT == "Count"
VALUE == "Value"
COVERAGE == "Coverage"

can_apply_condition(condition, line) ==
    /\ Catalogue[line.product].stockrecord
    /\ contains_product(condition.range, Catalogue[line.product])
    /\ Catalogue[line.product].is_discountable

\* Condition.get_applicable_lines: indices of the lines, sorted by price
Condition_get_applicable_lines(condition, ls, most_expensive_first) ==
    SortedLines(ls,
                {i \in 1..Len(ls) : /\ can_apply_condition(condition, ls[i])
                                    /\ unit_price(ls[i]) # 0},
                most_expensive_first)

\* variant: the whole quantity of a line counts, consumed or not
CountMatches_WholeQuantity(condition, ls, k) ==
    SumSeq([i \in 1..k |->
        IF can_apply_condition(condition, ls[i]) THEN ls[i].quantity ELSE 0])

\* num_matches after the first k lines of the basket
CountMatches(condition, ls, k) ==
    SumSeq([i \in 1..k |->
        IF can_apply_condition(condition, ls[i])
           /\ quantity_without_discount(ls[i]) > 0
        THEN quantity_without_discount(ls[i]) ELSE 0])

CountCondition_is_satisfied(condition, ls) ==
    \E k \in 1..Len(ls) : CountMatches(condition, ls, k) >= condition.value

RECURSIVE CountConsumeLoop(_, _, _, _)
CountConsumeLoop(ls, tuples, k, to_consume) ==
    IF k > Len(tuples) THEN ls
    ELSE LET i == tuples[k]
             quantity_to_consume ==
                 Min(quantity_without_discount(ls[i]), to_consume)
             ls2 == consume(ls, i, quantity_to_consume)
         IN  IF to_consume - quantity_to_consume = 0 THEN ls2
             ELSE CountConsumeLoop(ls2, tuples, k + 1,
                                   to_consume - quantity_to_consume)

\* variant: what the benefit consumed is not counted
CountCondition_consume_items_IgnoreAffected(condition, ls, affected_lines) ==
    CountConsumeLoop(ls, Condition_get_applicable_lines(condition, ls, TRUE),
                     1, condition.value)

\* variant: the units are drawn from the cheapest line first
CountCondition_consume_items_CheapestFirst(condition, ls, affected_lines) ==
    LET num_consumed == SumSeq([n \in 1..Len(affected_lines) |->
                                    affected_lines[n][3]])
        to_consume == Max(0, condition.value - num_consumed)
    IN  IF to_consume = 0 THEN ls
        ELSE CountConsumeLoop(
                 ls, Condition_get_applicable_lines(condition, ls, FALSE),
                 1, to_consume)

\* affected_lines: sequence of <<line index, discount, quantity>>
CountCondition_consume_items(condition, ls, affected_lines) ==
    LET num_consumed == SumSeq([n \in 1..Len(affected_lines) |->
                                    affected_lines[n][3]])
        to_consume == Max(0, condition.value - num_consumed)
    IN  IF to_consume = 0 THEN ls
        ELSE CountConsumeLoop(
                 ls, Condition_get_applicable_lines(condition, ls, TRUE),
                 1, to_consume)

\* covered_ids after the first k lines of the basket
CoveredIds(condition, ls, k) ==
    {ls[i].product : i \in {j \in 1..k :
        /\ is_available_for_discount(ls[j])
        /\ can_apply_condition(condition, ls[j])}}

CoverageCondition_is_satisfied(condition, ls) ==
    \E k \in 1..Len(ls) :
        /\ is_available_for_discount(ls[k])
        /\ Cardinality(CoveredIds(condition, ls, k)) >= condition.value

RECURSIVE CoverageConsumeLoop(_, _, _, _, _)
CoverageConsumeLoop(condition, ls, k, consumed_products, to_consume) ==
    IF k > Len(ls) THEN ls
    ELSE IF \/ ~can_apply_condition(condition, ls[k])
            \/ ls[k].product \in consumed_products
            \/ ~is_available_for_discount(ls[k])
         THEN CoverageConsumeLoop(condition, ls, k + 1, consumed_products,
                                  to_consume)
         ELSE IF to_consume - 1 = 0 THEN consume(ls, k, 1)
              ELSE CoverageConsumeLoop(
                       condition, consume(ls, k, 1), k + 1,
                       consumed_products \cup {ls[k].product}, to_consume - 1)

CoverageCondition_consume_items(condition, ls, affected_lines) ==
    LET to_consume == Max(0, condition.value - Len(affected_lines))
        consumed_products ==
            {ls[affected_lines[n][1]].product : n \in 1..Len(affected_lines)}
    IN  IF to_consume = 0 THEN ls
        ELSE CoverageConsumeLoop(condition, ls, 1, consumed_products,
                                 to_consume)

\* value_of_matches after the first k lines of the basket
ValueMatches(condition, ls, k) ==
    SumSeq([i \in 1..k |->
        IF can_apply_condition(condition, ls[i])
           /\ quantity_without_discount(ls[i]) > 0
        THEN unit_price(ls[i]) * quantity_without_discount(ls[i]) ELSE 0])

ValueCondition_is_satisfied(condition, ls) ==
    \E k \in 1..Len(ls) : ValueMatches(condition, ls, k) >= condition.value

\* variant: the quotient is rounded down
CeilDiv_RoundDown(a, b) == a \div b

\* (to_consume / price).quantize(D(1), ROUND_UP), for price > 0
CeilDiv(a, b) == IF a >= 0 THEN (a + b - 1) \div b ELSE -((-a) \div b)

RECURSIVE ValueConsumeLoop(_, _, _, _)
ValueConsumeLoop(ls, tuples, k, to_consume) ==
    IF k > Len(tuples) THEN ls
    ELSE LET i == tuples[k]
             price == unit_price(ls[i])
             quantity_to_consume ==
                 Min(quantity_without_discount(ls[i]),
                     CeilDiv(to_consume, price))
             ls2 == consume(ls, i, quantity_to_consume)
             left == to_consume - price * quantity_to_consume
         IN  IF left <= 0 THEN ls2
             ELSE ValueConsumeLoop(ls2, tuples, k + 1, left)

ValueCondition_consume_items(condition, ls, affected_lines) ==
    LET value_consumed == SumSeq([n \in 1..Len(affected_lines) |->
            unit_price(ls[affected_lines[n][1]]) * affected_lines[n][3]])
        to_consume == Max(0, condition.value - value_consumed)
    IN  IF to_consume = 0 THEN ls
        ELSE ValueConsumeLoop(
                 ls, Condition_get_applicable_lines(condition, ls, TRUE),
                 1, to_consume)

\* Condition.proxy(): the behaviour the type tag selects
is_satisfied(condition, ls) ==
    CASE condition.type = COUNT -> CountCondition_is_satisfied(condition, ls)
      [] condition.type = VALUE -> ValueCondition_is_satisfied(condition, ls)
      [] condition.type = COVERAGE ->
            CoverageCondition_is_satisfied(condition, ls)

consume_items(condition, ls, affected_lines) ==
    CASE condition.type = COUNT ->
            CountCondition_consume_items(condition, ls, affected_lines)
      [] condition.type = VALUE ->
            ValueCondition_consume_items(condition, ls, affected_lines)
      [] condition.type = COVERAGE ->
            CoverageCondition_consume_items(condition, ls, affected_lines)

(***************************************************************************)
(* Result types                                                            *)
(***************************************************************************)
BASKET == "BASKET"
SHIPPING == "SHIPPING"

BasketDiscount(amount) ==
    [affects |-> BASKET, discount |-> amount, is_successful |-> amount > 0,
     is_final |-> FALSE]

ZERO_DISCOUNT == BasketDiscount(0)

SHIPPING_DISCOUNT ==
    [affects |-> SHIPPING, discount |-> 0, is_successful |-> TRUE,
     is_final |-> TRUE]

(***************************************************************************)
(* Benefit                                                                 *)
(***************************************************************************)
PERCENTAGE == "Percentage"
FIXED == "Absolute"
MULTIBUY == "Multibuy"
FIXED_PRICE == "Fixed price"
SHIPPING_PERCENTAGE == "Shipping percentage"
SHIPPING_ABSOLUTE == "Shipping absolute"
SHIPPING_FIXED_PRICE == "Shipping fixed price"

\* Benefit.round of the amount num/den cents: quantize(D('.01'), ROUND_DOWN)
round(num, den) == IF num >= 0 THEN num \div den ELSE -((-num) \div den)

EffectiveMaxDefault == 10000

\* variant: a benefit without max_affected_items affects one item
effective_max_affected_items_DefaultOne(benefit) ==
    IF benefit.max_affected_items # None /\ benefit.max_affected_items # 0
    THEN benefit.max_affected_items ELSE 1

_effective_max_affected_items(benefit) ==
    IF benefit.max_affected_items # None /\ benefit.max_affected_items # 0
    THEN benefit.max_affected_items ELSE EffectiveMaxDefault

can_apply_benefit(line) ==
    /\ Catalogue[line.product].stockrecord
    /\ Catalogue[line.product].is_discountable

\* Benefit.get_applicable_lines: indices of the lines, cheapest first
Benefit_get_applicable_lines(ls, range) ==
    SortedLines(ls,
                {i \in 1..Len(ls) :
                    /\ contains_product(range, Catalogue[ls[i].product])
                    /\ can_apply_benefit(ls[i])
                    /\ unit_price(ls[i]) # 0
                    /\ quantity_without_discount(ls[i]) # 0},
                FALSE)

\* ---- PercentageDiscountBenefit.apply -----------------------------------
\* variant: the line's whole quantity, not what is left of it
PercentageQuantity_WholeLine(line, benefit, affected_items) ==
    Min(line.quantity, _effective_max_affected_items(benefit) - affected_items)

PercentageQuantity(line, benefit, affected_items) ==
    Min(quantity_without_discount(line),
        _effective_max_affected_items(benefit) - affected_items)

\* st: the loop's variables [lines, discount, affected_items,
\*     affected_lines, discount_amount_available]
RECURSIVE PercentageLoop(_, _, _, _, _)
PercentageLoop(st, tuples, k, benefit, discount_percent) ==
    IF k > Len(tuples) THEN st
    ELSE IF st.affected_items >= _effective_max_affected_items(benefit) THEN st
    ELSE IF st.discount_amount_available = 0 THEN st
    ELSE LET i == tuples[k]
             line == st.lines[i]
             quantity_affected ==
                 PercentageQuantity(line, benefit, st.affected_items)
             rounded == round(discount_percent * unit_price(line)
                                * quantity_affected, 100)
             discount ==
                 IF st.discount_amount_available # None
                 THEN Min(rounded, st.discount_amount_available) ELSE rounded
         IN  PercentageLoop(
                 [lines |-> apply_discount(st.lines, i, discount,
                                           quantity_affected),
                  discount |-> st.discount + discount,
                  affected_items |-> st.affected_items + quantity_affected,
                  affected_lines |-> Append(st.affected_lines,
                                            <<i, discount, quantity_affected>>),
                  discount_amount_available |->
                      IF st.discount_amount_available # None
                      THEN st.discount_amount_available - discount ELSE None],
                 tuples, k + 1, benefit, discount_percent)

PercentageDiscountBenefit_apply(ls, condition, benefit, max_total_discount) ==
    LET st == PercentageLoop(
                  [lines |-> ls, discount |-> 0, affected_items |-> 0,
                   affected_lines |-> <<>>,
                   discount_amount_available |-> max_total_discount],
                  Benefit_get_applicable_lines(ls, benefit.range), 1,
                  benefit, benefit.value)
    IN  [lines |-> IF st.discount > 0
                   THEN consume_items(condition, st.lines, st.affected_lines)
                   ELSE st.lines,
         result |-> BasketDiscount(st.discount)]

\* ---- AbsoluteDiscountBenefit.apply -------------------------------------
\* lines_to_discount: st = [sel (sequence of <<line index, price, qty>>),
\*                          num_affected_items, affected_items_total]
RECURSIVE AbsoluteSelect(_, _, _, _, _)
AbsoluteSelect(st, ls, tuples, k, benefit) ==
    IF k > Len(tuples) THEN st
    ELSE IF st.num_affected_items >= _effective_max_affected_items(benefit)
         THEN st
    ELSE LET i == tuples[k]
             price == unit_price(ls[i])
             qty == Min(quantity_without_discount(ls[i]),
                        _effective_max_affected_items(benefit)
                            - st.num_affected_items)
         IN  AbsoluteSelect(
                 [sel |-> Append(st.sel, <<i, price, qty>>),
                  num_affected_items |-> st.num_affected_items + qty,
                  affected_items_total |-> st.affected_items_total + qty * price],
                 ls, tuples, k + 1, benefit)

\* Decimal arithmetic of the source: 28 significant digits, ROUND_HALF_EVEN.
Digits(n) ==
    IF n <= 0 THEN 0 ELSE IF n < 10 THEN 1 ELSE IF n < 100 THEN 2
    ELSE IF n < 1000 THEN 3 ELSE IF n < 10000 THEN 4 ELSE IF n < 100000 THEN 5
    ELSE IF n < 1000000 THEN 6 ELSE IF n < 10000000 THEN 7
    ELSE IF n < 100000000 THEN 8 ELSE 9

RECURSIVE Pow10(_)
Pow10(k) == IF k <= 0 THEN 1 ELSE 10 * Pow10(k - 1)

\* (a * 10^p) mod b
RECURSIVE ShiftMod(_, _, _)
ShiftMod(a, p, b) == IF p = 0 THEN a % b ELSE ShiftMod((a * 10) % b, p - 1, b)

\* the number of leading zeros of the quotient a/b (a <= b)
RECURSIVE LeadingZeros(_, _)
LeadingZeros(a, b) == IF a >= b THEN 0 ELSE 1 + LeadingZeros(a * 10, b)

DecimalPrecision == 28

\* round(((price * qty) / affected_items_total) * discount) for value = price *
\* qty and total = affected_items_total: the quotient is rounded to 28
\* significant digits, so is its product with the discount, and the result is
\* cut to whole cents.  It is one cent under the exact share when the share is
\* a whole number of cents, the quotient was rounded down and the product does
\* not round back up.
WeightedDiscount(value, total, discount) ==
    LET exact == (value * discount) \div total
        kx == LeadingZeros(value, total)
        r == ShiftMod(value, DecimalPrecision - 1 + kx, total)
        k == Digits(exact - 1) + kx - 1
    IN  IF (value * discount) % total # 0 THEN exact
        ELSE IF r = 0 \/ 2 * r > total THEN exact
        ELSE IF k >= Digits(2 * discount) THEN exact
        ELSE IF 2 * r * discount <= total * Pow10(k) THEN exact
        ELSE exact - 1

\* variant: the last line gets its weighted share like the others
AbsoluteLineDiscount_NoRemainder(sel, n, discount, applied_discount, total) ==
    WeightedDiscount(sel[n][2] * sel[n][3], total, discount)

AbsoluteLineDiscount(sel, n, discount, applied_discount, total) ==
    IF n = Len(sel) THEN discount - applied_discount
    ELSE WeightedDiscount(sel[n][2] * sel[n][3], total, discount)

\* st: [lines, affected_lines, applied_discount]
RECURSIVE AbsoluteDistribute(_, _, _, _, _)
AbsoluteDistribute(st, sel, n, discount, total) ==
    IF n > Len(sel) THEN st
    ELSE LET d == AbsoluteLineDiscount(sel, n, discount, st.applied_discount,
                                       total)
         IN  AbsoluteDistribute(
                 [lines |-> apply_discount(st.lines, sel[n][1], d, sel[n][3]),
                  affected_lines |-> Append(st.affected_lines,
                                            <<sel[n][1], d, sel[n][3]>>),
                  applied_discount |-> st.applied_discount + d],
                 sel, n + 1, discount, total)

\* variant: max_total_discount is not applied
AbsoluteDiscountBenefit_apply_NoCap(ls, condition, benefit, max_total_discount) ==
    LET chosen == AbsoluteSelect(
                      [sel |-> <<>>, num_affected_items |-> 0,
                       affected_items_total |-> 0],
                      ls, Benefit_get_applicable_lines(ls, benefit.range), 1,
                      benefit)
        discount == Min(benefit.value, chosen.affected_items_total)
        st == AbsoluteDistribute(
                  [lines |-> ls, affected_lines |-> <<>>,
                   applied_discount |-> 0],
                  chosen.sel, 1, discount, chosen.affected_items_total)
    IN  IF discount = 0 THEN [lines |-> ls, result |-> ZERO_DISCOUNT]
        ELSE [lines |-> consume_items(condition, st.lines, st.affected_lines),
              result |-> BasketDiscount(discount)]

AbsoluteDiscountBenefit_apply(ls, condition, benefit, max_total_discount) ==
    LET chosen == AbsoluteSelect(
                      [sel |-> <<>>, num_affected_items |-> 0,
                       affected_items_total |-> 0],
                      ls, Benefit_get_applicable_lines(ls, benefit.range), 1,
                      benefit)
        capped == Min(benefit.value, chosen.affected_items_total)
        discount == IF max_total_discount # None
                    THEN Min(capped, max_total_discount) ELSE capped
        st == AbsoluteDistribute(
                  [lines |-> ls, affected_lines |-> <<>>,
                   applied_discount |-> 0],
                  chosen.sel, 1, discount, chosen.affected_items_total)
    IN  IF discount = 0 THEN [lines |-> ls, result |-> ZERO_DISCOUNT]
        ELSE [lines |-> consume_items(condition, st.lines, st.affected_lines),
              result |-> BasketDiscount(discount)]

\* ---- FixedPriceBenefit.apply -------------------------------------------
\* covered_lines: st = [covered (sequence of <<price, line index, quantity>>),
\*                      num_affected, value_affected]
RECURSIVE FixedPriceCover(_, _, _, _, _)
FixedPriceCover(st, ls, tuples, k, condition) ==
    IF k > Len(tuples) THEN st
    ELSE LET i == tuples[k]
             price == unit_price(ls[i])
             quantity_affected ==
                 IF condition.type = COVERAGE THEN 1
                 ELSE Min(quantity_without_discount(ls[i]),
                          condition.value - st.num_affected)
             st2 == [covered |-> Append(st.covered,
                                        <<price, i, quantity_affected>>),
                     num_affected |-> st.num_affected + quantity_affected,
                     value_affected |->
                         st.value_affected + quantity_affected * price]
         IN  IF st2.num_affected >= condition.value THEN st2
             ELSE FixedPriceCover(st2, ls, tuples, k + 1, condition)

FixedPriceLineDiscount(covered, n, discount, discount_applied, value_affected) ==
    IF covered[n][2] = covered[Len(covered)][2]
    THEN discount - discount_applied
    ELSE round(discount * (covered[n][1] * covered[n][3]), value_affected)

\* st: [lines, discount_applied]
RECURSIVE FixedPriceDistribute(_, _, _, _, _)
FixedPriceDistribute(st, covered, n, discount, value_affected) ==
    IF n > Len(covered) THEN st
    ELSE LET d == FixedPriceLineDiscount(covered, n, discount,
                                         st.discount_applied, value_affected)
         IN  FixedPriceDistribute(
                 [lines |-> apply_discount(st.lines, covered[n][2], d,
                                           covered[n][3]),
                  discount_applied |-> st.discount_applied + d],
                 covered, n + 1, discount, value_affected)

FixedPriceBenefit_apply(ls, condition, benefit) ==
    LET tuples == Benefit_get_applicable_lines(ls, condition.range)
        cover == FixedPriceCover(
                     [covered |-> <<>>, num_affected |-> 0,
                      value_affected |-> 0],
                     ls, tuples, 1, condition)
        discount == Max(cover.value_affected - benefit.value, 0)
        st == FixedPriceDistribute([lines |-> ls, discount_applied |-> 0],
                                   cover.covered, 1, discount,
                                   cover.value_affected)
    IN  IF condition.type = VALUE THEN [lines |-> ls, result |-> ZERO_DISCOUNT]
        ELSE IF tuples = <<>> THEN [lines |-> ls, result |-> ZERO_DISCOUNT]
        ELSE IF discount = 0 THEN [lines |-> ls, result |-> ZERO_DISCOUNT]
        ELSE [lines |-> st.lines, result |-> BasketDiscount(discount)]

\* ---- MultibuyDiscountBenefit.apply -------------------------------------
MultibuyDiscountBenefit_apply(ls, condition, benefit) ==
    LET tuples == Benefit_get_applicable_lines(ls, benefit.range)
        i == tuples[1]
        discount == unit_price(ls[i])
    IN  IF tuples = <<>> THEN [lines |-> ls, result |-> ZERO_DISCOUNT]
        ELSE [lines |-> consume_items(condition,
                                      apply_discount(ls, i, discount, 1),
                                      << <<i, discount, 1>> >>),
              result |-> BasketDiscount(discount)]

\* ---- ShippingBenefit.apply ---------------------------------------------
\* variant: the condition is not asked to consume
ShippingBenefit_apply_NoConsume(ls, condition, benefit) ==
    [lines |-> ls, result |-> SHIPPING_DISCOUNT]

ShippingBenefit_apply(ls, condition, benefit) ==
    [lines |-> consume_items(condition, ls, <<>>),
     result |-> SHIPPING_DISCOUNT]

ShippingTypes == {SHIPPING_ABSOLUTE, SHIPPING_FIXED_PRICE, SHIPPING_PERCENTAGE}

\* Benefit.proxy().apply(basket, condition, offer)
Benefit_apply(ls, condition, benefit) ==
    CASE benefit.type = PERCENTAGE ->
            PercentageDiscountBenefit_apply(ls, condition, benefit, None)
      [] benefit.type = FIXED ->
            AbsoluteDiscountBenefit_apply(ls, condition, benefit, None)
      [] benefit.type = MULTIBUY ->
            MultibuyDiscountBenefit_apply(ls, condition, benefit)
      [] benefit.type = FIXED_PRICE ->
            FixedPriceBenefit_apply(ls, condition, benefit)
      [] benefit.type \in ShippingTypes ->
            ShippingBenefit_apply(ls, condition, benefit)

\* the types Condition.proxy() and Benefit.proxy() have a class for
\* (no offer of the model has a proxy_class)
ConditionTypes == {COUNT, VALUE, COVERAGE}

BenefitTypes == {PERCENTAGE, FIXED, MULTIBUY, FIXED_PRICE} \cup ShippingTypes

\* the call ended in `raise RuntimeError("Unrecognised ... type")`
RUNTIME_ERROR ==
    [discount |-> 0, affects |-> "RuntimeError", is_successful |-> FALSE,
     is_final |-> FALSE]

\* variant: the benefit is applied whether or not the condition is satisfied
apply_benefit_Unconditional(o, ls) ==
    Benefit_apply(ls, o.condition, o.benefit)

\* ConditionalOffer.apply_benefit
apply_benefit(o, ls) ==
    IF o.condition.type \notin ConditionTypes
    THEN [lines |-> ls, result |-> RUNTIME_ERROR]
    ELSE IF ~is_satisfied(o.condition, ls)
    THEN [lines |-> ls, result |-> ZERO_DISCOUNT]
    ELSE IF o.benefit.type \notin BenefitTypes
    THEN [lines |-> ls, result |-> RUNTIME_ERROR]
    ELSE Benefit_apply(ls, o.condition, o.benefit)

(***************************************************************************)
(* ConditionalOffer: availability, usage caps and usage counters           *)
(***************************************************************************)
OPEN == "Open"
SUSPENDED == "Suspended"
CONSUMED == "Consumed"

\* Python truth of an optional number: None and 0 are false
Truthy(x) == x # None /\ x # 0

MinOf(S) == CHOOSE x \in S : \A y \in S : x <= y

\* the usage ledger (OrderDiscount rows of this offer), summed per user
get_num_user_applications(user, ldg) == ldg[user]

MaxApplicationsCeiling == 10000

\* variant: the global allowance is subtracted the wrong way round
get_max_applications_Swapped(o, user, ldg) ==
    IF Truthy(o.max_discount) /\ o.total_discount >= o.max_discount THEN 0
    ELSE MinOf(
        {MaxApplicationsCeiling}
        \cup (IF Truthy(o.max_user_applications) /\ user # None
              THEN {Max(0, o.max_user_applications
                             - get_num_user_applications(user, ldg))}
              ELSE {})
        \cup (IF Truthy(o.max_basket_applications)
              THEN {o.max_basket_applications} ELSE {})
        \cup (IF Truthy(o.max_global_applications)
              THEN {Max(0, o.num_applications - o.max_global_applications)}
              ELSE {}))

get_max_applications(o, user, ldg) ==
    IF Truthy(o.max_discount) /\ o.total_discount >= o.max_discount THEN 0
    ELSE MinOf(
        {MaxApplicationsCeiling}
        \cup (IF Truthy(o.max_user_applications) /\ user # None
              THEN {Max(0, o.max_user_applications
                             - get_num_user_applications(user, ldg))}
              ELSE {})
        \cup (IF Truthy(o.max_basket_applications)
              THEN {o.max_basket_applications} ELSE {})
        \cup (IF Truthy(o.max_global_applications)
              THEN {Max(0, o.max_global_applications - o.num_applications)}
              ELSE {}))

is_suspended(o) == o.status = SUSPENDED

\* variant: the start of the window is not part of it
is_available_StartExclusive(o, user, test_date, ldg) ==
    IF is_suspended(o) THEN FALSE
    ELSE IF \/ (o.start_datetime # None /\ o.start_datetime >= test_date)
            \/ (o.end_datetime # None /\ test_date > o.end_datetime)
         THEN FALSE
         ELSE get_max_applications(o, user, ldg) > 0

is_available(o, user, test_date, ldg) ==
    IF is_suspended(o) THEN FALSE
    ELSE IF \/ (o.start_datetime # None /\ o.start_datetime > test_date)
            \/ (o.end_datetime # None /\ test_date > o.end_datetime)
         THEN FALSE
         ELSE get_max_applications(o, user, ldg) > 0

\* variant: the status is recomputed also for a suspended offer
save_AlwaysRecompute(o) ==
    [o EXCEPT !.status =
        IF get_max_applications(o, None, <<>>) = 0 THEN CONSUMED ELSE OPEN]

\* ConditionalOffer.save: the object as it is written to its row.
\* get_max_applications() is called without a user and reads no ledger.
save(o) ==
    IF ~is_suspended(o)
    THEN [o EXCEPT !.status =
             IF get_max_applications(o, None, <<>>) = 0 THEN CONSUMED ELSE OPEN]
    ELSE o

suspend(o) == save([o EXCEPT !.status = SUSPENDED])

\* variant: the status is set to Open and not recomputed
unsuspend_NoRecompute(o) == [o EXCEPT !.status = OPEN]

unsuspend(o) == save([o EXCEPT !.status = OPEN])

\* variant: the number of orders grows by the frequency
record_usage_OrdersByFreq(o, discount) ==
    save([o EXCEPT !.num_applications = @ + discount.freq,
                   !.total_discount = @ + discount.discount,
                   !.num_orders = @ + discount.freq])

\* discount: [freq, discount], one order's application of the offer
record_usage(o, discount) ==
    save([o EXCEPT !.num_applications = @ + discount.freq,
                   !.total_discount = @ + discount.discount,
                   !.num_orders = @ + 1])

(***************************************************************************)
(* The offers and baskets explored.                                        *)
(***************************************************************************)
NoOffer == [condition |-> [type |-> "none"], benefit |-> [type |-> "none"]]

Conditions ==
    [type : {COUNT}, value : {1, 2}, range : Ranges]
        \cup [type : {COVERAGE}, value : {2}, range : Ranges]
        \cup [type : {VALUE}, value : {1500, 2500}, range : Ranges]

Benefits ==
    [type : {PERCENTAGE}, value : {10}, range : Ranges,
     max_affected_items : {None, 1}]
        \cup [type : {FIXED}, value : {1000}, range : Ranges,
              max_affected_items : {None, 2}]
        \cup [type : {MULTIBUY}, value : {None}, range : Ranges,
              max_affected_items : {None}]
        \cup [type : {FIXED_PRICE}, value : {1500}, range : {None},
              max_affected_items : {None}]
        \cup [type : ShippingTypes, value : {500}, range : {None},
              max_affected_items : {None}]

Offers == [condition : Conditions, benefit : Benefits]

\* product 1 in every quantity, product 2 once or twice, the others as
\* single units
LineChoices ==
    {NewLine(1, q) : q \in 1..MaxQty}
        \cup {NewLine(2, q) : q \in {1, 2}}
        \cup {NewLine(p, 1) : p \in Products \ {1, 2}}

BasketLengths == {1, 2}

Baskets == UNION {[1..n -> LineChoices] : n \in BasketLengths}

(***************************************************************************)
(* Applying offers to one basket, one after the other.  The offers of a    *)
(* pass are applied in turn; prev, last and result hold the latest         *)
(* application once it is observed (ApplyBenefit), the applications before *)
(* it (ApplyEarlier) leave only their effect on the lines.                 *)
(***************************************************************************)
IdleOffer ==
    [status |-> OPEN, priority |-> 0, condition |-> 1, benefit |-> 1,
     start_datetime |-> None, end_datetime |-> None,
     max_global_applications |-> None, max_user_applications |-> None,
     max_basket_applications |-> None, max_discount |-> None,
     total_discount |-> 0, num_applications |-> 0, num_orders |-> 0]

NoTally == [freq |-> 0, discount |-> 0, orders |-> 0]

OfferIdle ==
    /\ offer = IdleOffer
    /\ db = IdleOffer
    /\ ledger = <<>>
    /\ op = "none"
    /\ status0 = OPEN
    /\ offer0 = IdleOffer
    /\ tally = NoTally

RaceIdle ==
    /\ local = <<>>
    /\ pc = <<>>

\* a memoized id set that has not been fetched yet
Unfetched == [fetched |-> FALSE, ids |-> {}]

Fetched(ids) == [fetched |-> TRUE, ids |-> ids]

IdleRange ==
    [includes_all_products |-> FALSE, included_products |-> {},
     excluded_products |-> {}, classes |-> {}, included_categories |-> {},
     cached_included_product_ids |-> Unfetched,
     cached_excluded_product_ids |-> Unfetched,
     cached_class_ids |-> Unfetched, asked |-> None, answer |-> FALSE]

RangeIdle == rangeObj = IdleRange

\* a condition object nothing was asked of: memo is the _num_matches or
\* _value_of_matches attribute, None while the object has none
NewCondition(condition) ==
    [condition |-> condition, memo |-> None,
     asked_satisfied |-> FALSE, satisfied |-> FALSE,
     asked_partially |-> FALSE, partially |-> FALSE,
     asked_upsell |-> FALSE, delta |-> 0]

CondIdle == condObj = NewCondition([type |-> "none"])

BasketIdle ==
    /\ lines = <<>>
    /\ prev = <<>>
    /\ last = NoOffer
    /\ result = ZERO_DISCOUNT
    /\ earlier = 0

Init ==
    /\ lines \in Baskets
    /\ prev = lines
    /\ last = NoOffer
    /\ result = ZERO_DISCOUNT
    /\ earlier = 0
    /\ OfferIdle
    /\ RaceIdle
    /\ RangeIdle
    /\ CondIdle

ApplyEarlier(o) ==
    /\ last = NoOffer
    /\ earlier < MaxEarlier
    /\ lines' = apply_benefit(o, lines).lines
    /\ prev' = lines'
    /\ earlier' = earlier + 1
    /\ UNCHANGED <<last, result>>
    /\ UNCHANGED <<offerVars, raceVars, rangeVars, condVars>>

ApplyBenefit(o) ==
    /\ last = NoOffer
    /\ LET r == apply_benefit(o, lines)
       IN  /\ lines' = r.lines
           /\ result' = r.result
    /\ prev' = lines
    /\ last' = o
    /\ UNCHANGED earlier
    /\ UNCHANGED <<offerVars, raceVars, rangeVars, condVars>>

Next ==
    \/ \E o \in Offers : ApplyEarlier(o)
    \/ \E o \in Offers : ApplyBenefit(o)

Spec == Init /\ [][Next]_vars

(***************************************************************************)
(* The life of one offer: it is created with its caps and window, and then *)
(* orders record their usage, it is suspended, unsuspended and saved, and  *)
(* the usage ledger grows.                                                 *)
(***************************************************************************)
MaxOrders == 3
MaxLedger == 2

Users == {1}
Times == 0..3

CreatedOffers ==
    [status : {OPEN}, priority : {0}, condition : {1}, benefit : {1},
     start_datetime : {None, 1}, end_datetime : {None, 2},
     max_global_applications : {None, 0, 2, 5},
     max_user_applications : {None, 0, 1},
     max_basket_applications : {None, 0, 1},
     max_discount : {None, 0, 500},
     total_discount : {0}, num_applications : {0}, num_orders : {0}]

UsageDiscounts == [freq : {1, 2}, discount : {0, 300}]

InitOffer ==
    /\ offer \in {save(o) : o \in CreatedOffers}
    /\ db = offer
    /\ ledger = [u \in Users |-> 0]
    /\ op = "create"
    /\ status0 = OPEN
    /\ offer0 = offer
    /\ tally = NoTally
    /\ BasketIdle
    /\ RaceIdle
    /\ RangeIdle
    /\ CondIdle

RecordUsage(discount) ==
    /\ offer.num_orders < MaxOrders
    /\ offer' = record_usage(offer, discount)
    /\ db' = offer'
    /\ op' = "record_usage"
    /\ status0' = offer.status
    /\ tally' = [freq |-> tally.freq + discount.freq,
                 discount |-> tally.discount + discount.discount,
                 orders |-> tally.orders + 1]
    /\ UNCHANGED <<ledger, offer0, basketVars, raceVars, rangeVars, condVars>>

Suspend ==
    /\ offer' = suspend(offer)
    /\ db' = offer'
    /\ op' = "suspend"
    /\ status0' = SUSPENDED
    /\ UNCHANGED <<ledger, offer0, tally, basketVars, raceVars, rangeVars, condVars>>

Unsuspend ==
    /\ offer' = unsuspend(offer)
    /\ db' = offer'
    /\ op' = "unsuspend"
    /\ status0' = OPEN
    /\ UNCHANGED <<ledger, offer0, tally, basketVars, raceVars, rangeVars, condVars>>

Save ==
    /\ offer' = save(offer)
    /\ db' = offer'
    /\ op' = "save"
    /\ status0' = offer.status
    /\ UNCHANGED <<ledger, offer0, tally, basketVars, raceVars, rangeVars, condVars>>

\* an order of the user is stored with its OrderDiscount row
OrderDiscountCreated(user, frequency) ==
    /\ ledger[user] + frequency <= MaxLedger
    /\ ledger' = [ledger EXCEPT ![user] = @ + frequency]
    /\ UNCHANGED <<offer, db, op, status0, offer0, tally, basketVars, raceVars, rangeVars, condVars>>

NextOffer ==
    \/ \E discount \in UsageDiscounts : RecordUsage(discount)
    \/ Suspend
    \/ Unsuspend
    \/ Save
    \/ \E user \in Users : \E frequency \in {1, 2} :
            OrderDiscountCreated(user, frequency)

SpecOffer == InitOffer /\ [][NextOffer]_vars

(***************************************************************************)
(* Concurrent checkouts of one offer.  Each checkout loads the offer into  *)
(* an object of its own, checks get_max_applications() on it, and then     *)
(* calls record_usage on it, whose save() writes the object's fields to    *)
(* the row.  Nothing locks the row.                                        *)
(***************************************************************************)
MaxProcs == 3

Procs == 1..MaxProcs

RaceOffers ==
    {[IdleOffer EXCEPT !.max_global_applications = n,
                       !.num_applications = k] : n \in {1, 2}, k \in {0, 1}}

InitRace ==
    /\ db \in {save(o) : o \in RaceOffers}
    /\ offer = db
    /\ offer0 = db
    /\ ledger = [u \in Users |-> 0]
    /\ op = "create"
    /\ status0 = OPEN
    /\ tally = NoTally
    /\ local = [p \in Procs |-> db]
    /\ pc = [p \in Procs |-> "start"]
    /\ BasketIdle
    /\ RangeIdle
    /\ CondIdle

Load(p) ==
    /\ pc[p] = "start"
    /\ local' = [local EXCEPT ![p] = db]
    /\ pc' = [pc EXCEPT ![p] = "loaded"]
    /\ UNCHANGED <<offerVars, basketVars, rangeVars, condVars>>

Check(p) ==
    /\ pc[p] = "loaded"
    /\ pc' = [pc EXCEPT ![p] =
                 IF get_max_applications(local[p], None, ledger) > 0
                 THEN "checked" ELSE "skipped"]
    /\ UNCHANGED <<local, offerVars, basketVars, rangeVars, condVars>>

\* the checkout fetches the offer again before it records its usage
Reload(p) ==
    /\ pc[p] = "checked"
    /\ local[p] # db
    /\ local' = [local EXCEPT ![p] = db]
    /\ UNCHANGED <<pc, offerVars, basketVars, rangeVars, condVars>>

Record(p, discount) ==
    /\ pc[p] = "checked"
    /\ local' = [local EXCEPT ![p] = record_usage(local[p], discount)]
    /\ db' = local'[p]
    /\ pc' = [pc EXCEPT ![p] = "done"]
    /\ tally' = [freq |-> tally.freq + discount.freq,
                 discount |-> tally.discount + discount.discount,
                 orders |-> tally.orders + 1]
    /\ UNCHANGED <<offer, ledger, op, status0, offer0, basketVars, rangeVars, condVars>>

NextRace ==
    \/ \E p \in Procs : Load(p)
    \/ \E p \in Procs : Check(p)
    \/ \E p \in Procs : Reload(p)
    \/ \E p \in Procs : Record(p, [freq |-> 1, discount |-> 100])

SpecRace == InitRace /\ [][NextRace]_vars

(***************************************************************************)
(* One application of an absolute or fixed-price benefit to a basket of up *)
(* to three lines: how the discount is split over the lines.               *)
(***************************************************************************)
MaxSplitQty == 2

SplitLineChoices == {NewLine(p, q) : p \in 1..4, q \in 1..MaxSplitQty}

SplitBaskets == UNION {[1..n -> SplitLineChoices] : n \in {1, 2, 3}}

SplitConditions ==
    [type : {COUNT}, value : {1, 2, 4}, range : {RangeAll}]
        \cup [type : {COVERAGE}, value : {2, 3}, range : {RangeAll}]

SplitBenefits ==
    [type : {FIXED}, value : {1, 1000, 2999, 3000, 6000}, range : {RangeAll},
     max_affected_items : {None, 2}]
        \cup [type : {FIXED_PRICE}, value : {1, 1500, 2999}, range : {None},
              max_affected_items : {None}]

SplitOffers == [condition : SplitConditions, benefit : SplitBenefits]

InitSplit ==
    /\ lines \in SplitBaskets
    /\ prev = lines
    /\ last = NoOffer
    /\ result = ZERO_DISCOUNT
    /\ earlier = 0
    /\ OfferIdle
    /\ RaceIdle
    /\ RangeIdle
    /\ CondIdle

NextSplit == \E o \in SplitOffers : ApplyBenefit(o)

SpecSplit == InitSplit /\ [][NextSplit]_vars

(***************************************************************************)
(* Offers as they are stored: the type columns are free text, so a row can *)
(* hold a type no class exists for.                                        *)
(***************************************************************************)
UNKNOWN == "Other"

StoredConditions ==
    [type : {COUNT, UNKNOWN}, value : {1, 2}, range : {RangeAll}]

StoredBenefits ==
    [type : {PERCENTAGE, SHIPPING_ABSOLUTE, UNKNOWN}, value : {10},
     range : {RangeAll}, max_affected_items : {None}]

StoredOffers == [condition : StoredConditions, benefit : StoredBenefits]

NextStored == \E o \in StoredOffers : ApplyBenefit(o)

SpecStored == Init /\ [][NextStored]_vars

(***************************************************************************)
(* consume_items called directly, as a benefit calls it: on lines that may *)
(* be partly consumed, with the (line, discount, quantity) tuples of the   *)
(* units the benefit has just consumed.                                    *)
(***************************************************************************)
MaxConsumeQty == 5

ConsumeLines ==
    {l \in [product : {1, 2, 5}, quantity : 1..MaxConsumeQty,
            affected : 0..MaxConsumeQty, discount : {0}] :
        l.affected <= l.quantity}

ConsumeBaskets == UNION {[1..n -> ConsumeLines] : n \in {1, 2}}

ConsumeConditions ==
    [type : {COUNT}, value : {1, 2, 3}, range : Ranges]
        \cup [type : {VALUE}, value : {1500, 2500}, range : Ranges]

\* no tuple, or one tuple for units of a line that are consumed
AffectedLines(ls) ==
    {<<>>} \cup {<< <<i, 0, q>> >> : i \in 1..Len(ls), q \in 1..MaxConsumeQty}

InitConsume ==
    /\ lines \in ConsumeBaskets
    /\ prev = lines
    /\ last = NoOffer
    /\ result = ZERO_DISCOUNT
    /\ earlier = 0
    /\ OfferIdle
    /\ RaceIdle
    /\ RangeIdle
    /\ CondIdle

ConsumeItems(condition, affected_lines) ==
    /\ last = NoOffer
    /\ \A n \in 1..Len(affected_lines) :
          affected_lines[n][3] <= lines[affected_lines[n][1]].affected
    /\ lines' = consume_items(condition, lines, affected_lines)
    /\ prev' = lines
    /\ last' = [condition |-> condition, benefit |-> [type |-> "none"],
                affected_lines |-> affected_lines]
    /\ UNCHANGED <<result, earlier, offerVars, raceVars, rangeVars, condVars>>

NextConsume ==
    \E condition \in ConsumeConditions :
        \E affected_lines \in AffectedLines(lines) :
            ConsumeItems(condition, affected_lines)

SpecConsume == InitConsume /\ [][NextConsume]_vars

(***************************************************************************)
(* CoverageCondition.consume_items called as a benefit calls it, with up   *)
(* to two (line, discount, quantity) tuples, one for each line the benefit *)
(* consumed units of.  Two lines of a basket may hold the same product.    *)
(***************************************************************************)
MaxCoverQty == 2

CoverageLines ==
    {l \in [product : {1, 2, 3}, quantity : 1..MaxCoverQty,
            affected : 0..MaxCoverQty, discount : {0}] :
        l.affected <= l.quantity}

CoverageBaskets == UNION {[1..n -> CoverageLines] : n \in {1, 2, 3}}

CoverageConditions == [type : {COVERAGE}, value : {1, 2, 3}, range : Ranges]

\* no tuple, one tuple, or two tuples for two different lines
CoverageAffected(ls) ==
    {<<>>}
      \cup {<< <<i, 0, q>> >> : i \in 1..Len(ls), q \in 1..MaxCoverQty}
      \cup {<< <<ij[1], 0, 1>>, <<ij[2], 0, 1>> >> :
                ij \in {x \in (1..Len(ls)) \X (1..Len(ls)) : x[1] # x[2]}}

InitCoverage ==
    /\ lines \in CoverageBaskets
    /\ prev = lines
    /\ last = NoOffer
    /\ result = ZERO_DISCOUNT
    /\ earlier = 0
    /\ OfferIdle
    /\ RaceIdle
    /\ RangeIdle
    /\ CondIdle

NextCoverage ==
    \E condition \in CoverageConditions :
        \E affected_lines \in CoverageAffected(lines) :
            ConsumeItems(condition, affected_lines)

SpecCoverage == InitCoverage /\ [][NextCoverage]_vars

(***************************************************************************)
(* The percentage and the absolute benefit applied directly, with the      *)
(* max_total_discount argument of apply().                                 *)
(***************************************************************************)
MaxBudgetQty == 2

BudgetBaskets ==
    UNION {[1..n -> {NewLine(p, q) : p \in {1, 2, 4}, q \in 1..MaxBudgetQty}] :
              n \in {1, 2}}

BudgetCondition == [type |-> COUNT, value |-> 1, range |-> RangeAll]

BudgetBenefits ==
    [type : {PERCENTAGE}, value : {10, 50}, range : Ranges,
     max_affected_items : {None, 0, 1, 2}]
        \cup [type : {FIXED}, value : {1000, 2500}, range : Ranges,
              max_affected_items : {None, 0, 1, 2}]

MaxTotalDiscounts == {None, 0, 1, 300}

InitBudget ==
    /\ lines \in BudgetBaskets
    /\ prev = lines
    /\ last = NoOffer
    /\ result = ZERO_DISCOUNT
    /\ earlier = 0
    /\ OfferIdle
    /\ RaceIdle
    /\ RangeIdle
    /\ CondIdle

ApplyWithBudget(benefit, max_total_discount) ==
    /\ last = NoOffer
    /\ LET r == IF benefit.type = PERCENTAGE
                THEN PercentageDiscountBenefit_apply(
                         lines, BudgetCondition, benefit, max_total_discount)
                ELSE AbsoluteDiscountBenefit_apply(
                         lines, BudgetCondition, benefit, max_total_discount)
       IN  /\ lines' = r.lines
           /\ result' = r.result
    /\ prev' = lines
    /\ last' = [condition |-> BudgetCondition, benefit |-> benefit,
                max_total_discount |-> max_total_discount]
    /\ UNCHANGED <<earlier, offerVars, raceVars, rangeVars, condVars>>

NextBudget ==
    \E benefit \in BudgetBenefits : \E max_total_discount \in MaxTotalDiscounts :
        ApplyWithBudget(benefit, max_total_discount)

SpecBudget == InitBudget /\ [][NextBudget]_vars

(***************************************************************************)
(* shipping_discount(charge) of the three shipping benefits. Charges and   *)
(* amounts are in cents, the percentage value in whole percents.           *)
(***************************************************************************)
\* Decimal.quantize(D('0.01')) of num/den cents in the default context:
\* ROUND_HALF_EVEN
quantize(num, den) ==
    LET q == num \div den
        r == num % den
    IN  IF 2 * r > den \/ (2 * r = den /\ q % 2 = 1) THEN q + 1 ELSE q

shipping_discount(benefit, charge) ==
    CASE benefit.type = SHIPPING_ABSOLUTE -> Min(charge, benefit.value)
      [] benefit.type = SHIPPING_FIXED_PRICE ->
            IF charge < benefit.value THEN 0 ELSE charge - benefit.value
      [] benefit.type = SHIPPING_PERCENTAGE ->
            quantize(charge * benefit.value, 100)
      [] OTHER -> 0

MaxCharge == 20

\* the call shipping_discount(charge): `last` keeps the benefit and the
\* charge, `result` the shipping discount with the amount computed
ShippingDiscount(benefit, charge) ==
    /\ last = NoOffer
    /\ last' = [condition |-> [type |-> "none"], benefit |-> benefit,
                charge |-> charge]
    /\ result' = [SHIPPING_DISCOUNT EXCEPT
                     !.discount = shipping_discount(benefit, charge)]
    /\ UNCHANGED <<lines, prev, earlier, offerVars, raceVars, rangeVars, condVars>>

NextShipping ==
    \E benefit \in [type : ShippingTypes, value : {0, 5, 10, 50, 100},
                    range : {None}, max_affected_items : {None}] :
        \E charge \in 0..MaxCharge : ShippingDiscount(benefit, charge)

InitShipping ==
    /\ BasketIdle
    /\ OfferIdle
    /\ RaceIdle
    /\ RangeIdle
    /\ CondIdle

SpecShipping == InitShipping /\ [][NextShipping]_vars

(***************************************************************************)
(* A saved Range object, without a custom class: its definition (the rows  *)
(* of its product relations) and the id sets it memoizes in                *)
(* __included_product_ids, __excluded_product_ids and __class_ids.         *)
(***************************************************************************)
\* a child product of product 2
ChildProduct ==
    [id |-> 7, price |-> 2000, is_discountable |-> TRUE, stockrecord |-> TRUE,
     parent |-> 2, product_class_id |-> None, categories |-> {}]

AskedProducts == {1, 2, 3, 4, ChildProduct.id}

ProductById(p) == IF p = ChildProduct.id THEN ChildProduct ELSE Catalogue[p]

\* Range.__get_pks_and_child_pks: the products' ids and their children's
get_pks_and_child_pks(queryset) ==
    queryset \cup {p \in AskedProducts : ProductById(p).parent \in queryset}

_included_product_ids(r) ==
    IF r.cached_included_product_ids.fetched
    THEN r.cached_included_product_ids.ids
    ELSE get_pks_and_child_pks(r.included_products)

_excluded_product_ids(r) ==
    IF r.cached_excluded_product_ids.fetched
    THEN r.cached_excluded_product_ids.ids
    ELSE get_pks_and_child_pks(r.excluded_products)

_class_ids(r) ==
    IF r.cached_class_ids.fetched THEN r.cached_class_ids.ids ELSE r.classes

\* what contains_product sees of the object
RangeView(r) ==
    [includes_all_products |-> r.includes_all_products,
     included_product_ids |-> _included_product_ids(r),
     excluded_product_ids |-> _excluded_product_ids(r),
     class_ids |-> _class_ids(r),
     included_categories |-> r.included_categories]

InitRange ==
    /\ rangeObj \in
          [includes_all_products : BOOLEAN, included_products : SUBSET {1, 2},
           excluded_products : SUBSET {1, 2}, classes : {{}, {2}},
           included_categories : {{}, {2}},
           cached_included_product_ids : {Unfetched},
           cached_excluded_product_ids : {Unfetched},
           cached_class_ids : {Unfetched},
           asked : {None}, answer : {FALSE}]
    /\ BasketIdle
    /\ OfferIdle
    /\ RaceIdle
    /\ CondIdle

\* range.contains(product): each id set is fetched, and memoized, when the
\* decision first reaches it
Contains(p) ==
    LET product == IF ProductById(p).parent # None
                   THEN Catalogue[ProductById(p).parent] ELSE ProductById(p)
        excluded == product.id \in _excluded_product_ids(rangeObj)
        by_all == ~excluded /\ rangeObj.includes_all_products
        by_class == /\ ~excluded /\ ~by_all
                    /\ product.product_class_id \in _class_ids(rangeObj)
        reads_classes == ~excluded /\ ~by_all
        reads_included == reads_classes /\ ~by_class
    IN  /\ rangeObj' =
              [rangeObj EXCEPT
                 !.cached_excluded_product_ids =
                     Fetched(_excluded_product_ids(rangeObj)),
                 !.cached_class_ids =
                     IF reads_classes THEN Fetched(_class_ids(rangeObj))
                     ELSE @,
                 !.cached_included_product_ids =
                     IF reads_included
                     THEN Fetched(_included_product_ids(rangeObj)) ELSE @,
                 !.asked = p,
                 !.answer = contains_product(RangeView(rangeObj), ProductById(p))]
        /\ UNCHANGED <<basketVars, offerVars, raceVars, condVars>>

\* range.add_product(product), for a product that is not a child
AddProduct(p) ==
    /\ ProductById(p).parent = None
    /\ rangeObj' = [rangeObj EXCEPT !.included_products = @ \cup {p},
                                    !.asked = None, !.answer = FALSE]
    /\ UNCHANGED <<basketVars, offerVars, raceVars, condVars>>

RemoveProduct(p) ==
    /\ rangeObj' = [rangeObj EXCEPT !.included_products = @ \ {p},
                                    !.asked = None, !.answer = FALSE]
    /\ UNCHANGED <<basketVars, offerVars, raceVars, condVars>>

\* range.excluded_products.add(product) / .remove(product)
ChangeExcluded(p) ==
    /\ rangeObj' = [rangeObj EXCEPT
                      !.excluded_products =
                          IF p \in @ THEN @ \ {p} ELSE @ \cup {p},
                      !.asked = None, !.answer = FALSE]
    /\ UNCHANGED <<basketVars, offerVars, raceVars, condVars>>

NextRange ==
    \/ \E p \in AskedProducts : Contains(p)
    \/ \E p \in {1, 2} : AddProduct(p)
    \/ \E p \in {1, 2} : RemoveProduct(p)
    \/ \E p \in {1, 2} : ChangeExcluded(p)

SpecRange == InitRange /\ [][NextRange]_vars

(***************************************************************************)
(* One CountCondition or ValueCondition object (proxy() of such an object  *)
(* returns the object itself) asked about a basket that changes between    *)
(* the calls.                                                              *)
(***************************************************************************)
MaxPartialQty == 3

PartialBaskets ==
    UNION {[1..n -> {NewLine(p, q) : p \in {1, 2}, q \in {1, 2}}] : n \in {1, 2}}

PartialConditions ==
    [type : {COUNT}, value : {2, 3}, range : {RangeAll}]
        \cup [type : {VALUE}, value : {2500}, range : {RangeAll}]

\* CountCondition._get_num_matches
_get_num_matches(c, ls) ==
    IF c.memo # None THEN c.memo ELSE CountMatches(c.condition, ls, Len(ls))

\* ValueCondition._get_value_of_matches
_get_value_of_matches(c, ls) ==
    IF c.memo # None THEN c.memo ELSE ValueMatches(c.condition, ls, Len(ls))

get_matches(c, ls) ==
    IF c.condition.type = COUNT THEN _get_num_matches(c, ls)
    ELSE _get_value_of_matches(c, ls)

is_partially_satisfied(c, ls) ==
    0 < get_matches(c, ls) /\ get_matches(c, ls) < c.condition.value

InitPartial ==
    /\ lines \in PartialBaskets
    /\ prev = <<>>
    /\ last = NoOffer
    /\ result = ZERO_DISCOUNT
    /\ earlier = 0
    /\ condObj \in {NewCondition(condition) : condition \in PartialConditions}
    /\ OfferIdle
    /\ RaceIdle
    /\ RangeIdle

IsSatisfied ==
    /\ condObj' = [condObj EXCEPT
                     !.asked_satisfied = TRUE,
                     !.satisfied = is_satisfied(condObj.condition, lines)]
    /\ UNCHANGED <<basketVars, offerVars, raceVars, rangeVars>>

IsPartiallySatisfied ==
    /\ condObj' = [condObj EXCEPT
                     !.memo = get_matches(condObj, lines),
                     !.asked_partially = TRUE,
                     !.partially = is_partially_satisfied(condObj, lines)]
    /\ UNCHANGED <<basketVars, offerVars, raceVars, rangeVars>>

\* delta: the number of units, or the value, the message asks for
GetUpsellMessage ==
    /\ condObj' = [condObj EXCEPT
                     !.memo = get_matches(condObj, lines),
                     !.asked_upsell = TRUE,
                     !.delta = condObj.condition.value
                                 - get_matches(condObj, lines)]
    /\ UNCHANGED <<basketVars, offerVars, raceVars, rangeVars>>

\* the answers given for the basket as it was are forgotten
Forgotten(c) ==
    [c EXCEPT !.asked_satisfied = FALSE, !.satisfied = FALSE,
              !.asked_partially = FALSE, !.partially = FALSE,
              !.asked_upsell = FALSE, !.delta = 0]

\* the customer raises the quantity of a line
AddQuantity(i) ==
    /\ i <= Len(lines)
    /\ lines[i].quantity < MaxPartialQty
    /\ lines' = [lines EXCEPT ![i].quantity = @ + 1]
    /\ condObj' = Forgotten(condObj)
    /\ UNCHANGED <<prev, last, result, earlier, offerVars, raceVars, rangeVars>>

\* an offer consumes a unit of a line
ConsumeUnit(i) ==
    /\ i <= Len(lines)
    /\ is_available_for_discount(lines[i])
    /\ lines' = consume(lines, i, 1)
    /\ condObj' = Forgotten(condObj)
    /\ UNCHANGED <<prev, last, result, earlier, offerVars, raceVars, rangeVars>>

NextPartial ==
    \/ IsSatisfied
    \/ IsPartiallySatisfied
    \/ GetUpsellMessage
    \/ \E i \in {1, 2} : AddQuantity(i)
    \/ \E i \in {1, 2} : ConsumeUnit(i)

SpecPartial == InitPartial /\ [][NextPartial]_vars

(***************************************************************************)
(* Properties                                                              *)
(***************************************************************************)
LineIds == 1..Len(lines)

\* what the observed application added to line i
AppliedDiscount(i) == lines[i].discount - prev[i].discount
ConsumedUnits(i) == lines[i].affected - prev[i].affected

SumApplied == SumSeq([i \in LineIds |-> AppliedDiscount(i)])
SumConsumed == SumSeq([i \in LineIds |-> ConsumedUnits(i)])

UsersOrNone == Users \cup {None}

\* C1: after any sequence of offer applications on a basket, every line has
\* 0 <= consumed quantity <= quantity, so that no unit is taken by two offers.
C1_ConsumedWithinQuantity ==
    \A i \in LineIds :
        /\ 0 <= lines[i].affected
        /\ lines[i].affected <= lines[i].quantity
        /\ lines[i].quantity = prev[i].quantity
        /\ prev[i].affected <= lines[i].affected

\* two offers in turn took units of one line and used it up
C1_Witness ==
    /\ earlier = 1
    /\ last # NoOffer
    /\ \E i \in LineIds :
          /\ 0 < prev[i].affected
          /\ prev[i].affected < lines[i].affected
          /\ lines[i].affected = lines[i].quantity

\* C2: for the absolute and the fixed-price benefit, the discounts applied to
\* the lines add up to exactly the discount of the returned BasketDiscount.
C2_Conservation ==
    last.benefit.type \in {FIXED, FIXED_PRICE} =>
        /\ result.affects = BASKET
        /\ SumApplied = result.discount

\* $10.00 off three lines of equal value: 3.33, 3.33 and the remainder 3.34
C2_Witness ==
    /\ last.benefit.type = FIXED
    /\ Len(lines) = 3
    /\ result.discount = 1000
    /\ \E i, j \in LineIds : AppliedDiscount(i) = 333 /\ AppliedDiscount(j) = 334

\* The case of C3: a count condition and a percentage benefit without
\* max_affected_items on a basket whose only line holds q >= t untouched units
\* of a priced, discountable product that is in both ranges.
C3_Case ==
    /\ last.condition.type = COUNT
    /\ last.benefit.type = PERCENTAGE
    /\ last.benefit.max_affected_items = None
    /\ Len(prev) = 1
    /\ prev[1].affected = 0
    /\ prev[1].quantity >= last.condition.value
    /\ unit_price(prev[1]) > 0
    /\ can_apply_condition(last.condition, prev[1])
    /\ contains_product(last.benefit.range, Catalogue[prev[1].product])

\* C3 as stated: the discount is round(p/100 * c * t) and the line's consumed
\* quantity becomes t.
C3_DiscountOnThreshold ==
    C3_Case =>
        /\ result.discount
             = (last.benefit.value * unit_price(prev[1]) * last.condition.value)
                   \div 100
        /\ lines[1].affected = last.condition.value

\* C3 amended: the discount is round(p/100 * c * q) and the line's consumed
\* quantity becomes q: without max_affected_items every unit is discounted.
C3_DiscountOnWholeLine ==
    C3_Case =>
        /\ result.affects = BASKET
        /\ result.discount
             = (last.benefit.value * unit_price(prev[1]) * prev[1].quantity)
                   \div 100
        /\ lines[1].affected = prev[1].quantity
        /\ lines[1].discount = prev[1].discount + result.discount

\* 3 units at $10.00, threshold 2, 10%: $3.00 off and 3 units consumed
C3_Witness ==
    /\ prev = <<NewLine(1, 3)>>
    /\ last.condition.type = COUNT
    /\ last.condition.value = 2
    /\ last.benefit.type = PERCENTAGE
    /\ last.benefit.value = 10
    /\ last.benefit.max_affected_items = None
    /\ result.discount = 300
    /\ lines[1].affected = 3

\* The case of C4: a shipping benefit applied to a basket that satisfies the
\* offer's condition.
C4_Case ==
    /\ last.benefit.type \in ShippingTypes
    /\ is_satisfied(last.condition, prev)

\* C4 as stated: the lines keep their consumed quantity and discount, and the
\* result is the terminal shipping discount.
C4_LinesUntouched ==
    C4_Case =>
        /\ lines = prev
        /\ result.affects = SHIPPING /\ result.is_successful /\ result.is_final

\* unconsumed units of the priced lines the condition applies to
C4_PricedUnits ==
    SumSeq([i \in 1..Len(prev) |->
        IF can_apply_condition(last.condition, prev[i]) /\ unit_price(prev[i]) > 0
        THEN quantity_without_discount(prev[i]) ELSE 0])

\* C4 amended: the lines keep their discount and the result is the terminal
\* shipping discount, but the condition consumes its items: no line's consumed
\* quantity decreases or passes its quantity, and a count condition of
\* threshold t consumes min(t, unconsumed priced applicable units) units.
C4_DiscountsUntouched ==
    C4_Case =>
        /\ result.affects = SHIPPING /\ result.is_successful /\ result.is_final
        /\ result.discount = 0
        /\ \A i \in LineIds :
              /\ lines[i].discount = prev[i].discount
              /\ lines[i].quantity = prev[i].quantity
              /\ lines[i].product = prev[i].product
              /\ prev[i].affected <= lines[i].affected
              /\ lines[i].affected <= lines[i].quantity
        /\ last.condition.type = COUNT =>
              SumConsumed = Min(last.condition.value, C4_PricedUnits)

\* a shipping benefit with a count condition consumed units of a line
C4_Witness ==
    /\ last.benefit.type \in ShippingTypes
    /\ last.condition.type = COUNT
    /\ result.affects = SHIPPING
    /\ SumConsumed = last.condition.value
    /\ \E i \in LineIds : ConsumedUnits(i) > 0

C6_StatusAfterSave ==
    op \in {"save", "record_usage", "suspend", "unsuspend"} =>
        /\ db = offer
        /\ offer.status = SUSPENDED <=> status0 = SUSPENDED
        /\ offer.status # SUSPENDED =>
              offer.status = IF get_max_applications(offer, None, ledger) = 0
                             THEN CONSUMED ELSE OPEN
        /\ (op = "record_usage" /\ status0 = SUSPENDED) =>
              offer.status = SUSPENDED
        /\ (op = "unsuspend" /\ get_max_applications(offer, None, ledger) = 0) =>
              offer.status = CONSUMED

\* an offer whose caps are used up was unsuspended and is Consumed
C6_Witness ==
    /\ op = "unsuspend"
    /\ offer.status = CONSUMED
    /\ offer.num_applications >= 2

\* C7, the caps as the claim reads them: a cap that is set (any value >= 0)
C7_Exhausted(o, user) ==
    \/ o.max_discount # None /\ o.total_discount >= o.max_discount
    \/ o.max_global_applications # None
          /\ o.num_applications >= o.max_global_applications
    \/ user # None /\ o.max_user_applications # None
          /\ ledger[user] >= o.max_user_applications

C7_Allowances(o, user) ==
    {MaxApplicationsCeiling}
    \cup (IF o.max_global_applications # None
          THEN {o.max_global_applications - o.num_applications} ELSE {})
    \cup (IF user # None /\ o.max_user_applications # None
          THEN {o.max_user_applications - ledger[user]} ELSE {})
    \cup (IF o.max_basket_applications # None
          THEN {o.max_basket_applications} ELSE {})

\* C7: for every setting of the caps (unset or any value >= 0) and every
\* counter state, get_max_applications(user) is 0 iff a cap is exhausted, and
\* otherwise the minimum of 10000 and the remaining allowances.
C7_ZeroIffExhausted ==
    \A user \in UsersOrNone :
        LET m == get_max_applications(offer, user, ledger)
        IN  /\ m = 0 <=> C7_Exhausted(offer, user)
            /\ ~C7_Exhausted(offer, user) => m = MinOf(C7_Allowances(offer, user))

\* C8: with the caps fixed, record_usage calls and a growing ledger never
\* increase what get_max_applications(user) returns.
C8_NonIncreasing ==
    [][\A user \in UsersOrNone :
          get_max_applications(offer', user, ledger')
              <= get_max_applications(offer, user, ledger)]_vars

\* a record_usage call lowered the allowance without using it up
C8_Witness ==
    /\ op = "record_usage"
    /\ get_max_applications(offer, None, ledger) > 0
    /\ get_max_applications(offer, None, ledger)
          < get_max_applications(offer0, None, ledger)

\* C9: is_available(user, t) iff the offer is not Suspended, t is within the
\* window (bounds included, an unset bound does not limit) and
\* get_max_applications(user) > 0; an offer with max_global_applications = 5
\* and num_applications = 5 is available at no time.
C9_Availability ==
    /\ \A user \in UsersOrNone : \A t \in Times :
          is_available(offer, user, t, ledger) <=>
              /\ offer.status # SUSPENDED
              /\ offer.start_datetime = None \/ offer.start_datetime <= t
              /\ offer.end_datetime = None \/ t <= offer.end_datetime
              /\ get_max_applications(offer, user, ledger) > 0
    /\ (offer.max_global_applications = 5 /\ offer.num_applications = 5) =>
          \A user \in UsersOrNone : \A t \in Times :
              ~is_available(offer, user, t, ledger)

\* five applications of an offer capped at five, with a window
C9_Witness ==
    /\ offer.max_global_applications = 5
    /\ offer.num_applications = 5
    /\ offer.start_datetime = 1
    /\ offer.end_datetime = 2
    /\ offer.status = CONSUMED

\* C10: record_usage adds discount.freq to num_applications, discount.discount
\* to total_discount and 1 to num_orders, persists the offer and leaves caps,
\* window, priority, condition and benefit alone; after n calls each counter
\* is its initial value plus the sum of the increments.
C10_CountersAndFrame ==
    /\ offer.num_applications = offer0.num_applications + tally.freq
    /\ offer.total_discount = offer0.total_discount + tally.discount
    /\ offer.num_orders = offer0.num_orders + tally.orders
    /\ [offer EXCEPT !.status = OPEN, !.num_applications = 0,
                     !.total_discount = 0, !.num_orders = 0]
         = [offer0 EXCEPT !.status = OPEN, !.num_applications = 0,
                          !.total_discount = 0, !.num_orders = 0]
    /\ db = offer

\* three orders recorded 5 applications and $6.00 of discount
C10_Witness ==
    /\ op = "record_usage"
    /\ tally.orders = 3
    /\ tally.freq = 5
    /\ tally.discount = 600
    /\ offer.num_applications = 5
    /\ offer.num_orders = 3

\* C11: if the offer's condition is not satisfied by the basket, apply_benefit
\* returns the zero basket discount (amount 0, not successful, not final) and
\* leaves every line's consumed quantity and discount as it was: the benefit
\* is not invoked.
C11_UnsatisfiedIsZero ==
    (last # NoOffer /\ ~is_satisfied(last.condition, prev)) =>
        /\ result.affects = BASKET
        /\ result.discount = 0
        /\ ~result.is_successful
        /\ ~result.is_final
        /\ lines = prev

\* an unsatisfied offer whose benefit, had it been invoked, would have
\* discounted the basket
C11_Witness ==
    /\ last # NoOffer
    /\ ~is_satisfied(last.condition, prev)
    /\ lines = prev
    /\ result = ZERO_DISCOUNT
    /\ Benefit_apply(prev, last.condition, last.benefit).result.discount > 0

\* C12: for every stored offer, also one whose condition or benefit type is
\* not a recognised type, apply_benefit ends with an ApplicationResult (at
\* worst the zero discount), never in an error.
C12_NoFailurePath ==
    last # NoOffer => result.affects \in {BASKET, SHIPPING}

\* the consume_items call observed in SpecConsume
ConsumeCalled == last # NoOffer /\ "affected_lines" \in DOMAIN last

\* units and value the benefit consumed before the call (affected_lines)
BenefitUnits ==
    SumSeq([n \in 1..Len(last.affected_lines) |-> last.affected_lines[n][3]])

BenefitValue ==
    SumSeq([n \in 1..Len(last.affected_lines) |->
        unit_price(prev[last.affected_lines[n][1]]) * last.affected_lines[n][3]])

\* value the call consumed, and the price of the last line it drew from (the
\* cheapest one: lines are taken most expensive first)
ConsumedValue ==
    SumSeq([i \in LineIds |-> unit_price(prev[i]) * ConsumedUnits(i)])

LastDrawnPrice ==
    LET drawn == {i \in LineIds : ConsumedUnits(i) > 0}
    IN  MinOf({unit_price(prev[i]) : i \in drawn})

\* C13: CountCondition.consume_items, when the benefit already consumed k
\* units, consumes at most max(0, threshold - k) further units and nothing
\* when k >= threshold; ValueCondition.consume_items, when value v was
\* already consumed, stops once it has consumed d = max(0, threshold - v):
\* what it consumed less one unit price of the last line it drew from is < d.
C13_ConsumeWithinRemainder ==
    ConsumeCalled =>
        /\ \A i \in LineIds : ConsumedUnits(i) >= 0
        /\ last.condition.type = COUNT =>
              /\ SumConsumed <= Max(0, last.condition.value - BenefitUnits)
              /\ BenefitUnits >= last.condition.value => lines = prev
        /\ last.condition.type = VALUE =>
              LET d == Max(0, last.condition.value - BenefitValue)
              IN  /\ d = 0 => lines = prev
                  /\ ConsumedValue > 0 => ConsumedValue - LastDrawnPrice < d

\* the benefit consumed one unit of value below the threshold and the value
\* condition drew more than the remainder from two lines
C13_Witness ==
    /\ ConsumeCalled
    /\ last.condition.type = VALUE
    /\ Len(last.affected_lines) = 1
    /\ 0 < BenefitValue /\ BenefitValue < last.condition.value
    /\ ConsumedValue > last.condition.value - BenefitValue
    /\ \A i \in LineIds : ConsumedUnits(i) > 0
    /\ Len(lines) = 2

\* The case of C14: a value condition, nothing consumed by the benefit, and
\* exactly one line the condition applies to, with a price.
C14_Line(i) ==
    /\ can_apply_condition(last.condition, prev[i])
    /\ unit_price(prev[i]) > 0

\* C14: for a ValueCondition on a basket with one applicable line of unit
\* price c and u unconsumed units, is_satisfied is true iff c*u >= threshold
\* and consume_items without affected lines consumes min(u, ceil(threshold/c))
\* units of that line and none of another.
C14_ValueOnOneLine ==
    (/\ ConsumeCalled
     /\ last.condition.type = VALUE
     /\ last.affected_lines = <<>>
     /\ Cardinality({i \in LineIds : C14_Line(i)}) = 1) =>
        LET i == CHOOSE j \in LineIds : C14_Line(j)
            c == unit_price(prev[i])
            u == prev[i].quantity - prev[i].affected
            t == last.condition.value
        IN  /\ is_satisfied(last.condition, prev) <=> c * u >= t
            /\ ConsumedUnits(i) = Min(u, (t + c - 1) \div c)
            /\ \A j \in LineIds \ {i} : lines[j] = prev[j]

\* threshold $25.00, 5 units at $10.00 of which 2 were consumed: satisfied,
\* 3 units consumed, none left
C14_Witness ==
    /\ ConsumeCalled
    /\ last.condition = [type |-> VALUE, value |-> 2500, range |-> RangeAll]
    /\ last.affected_lines = <<>>
    /\ prev = <<[product |-> 1, quantity |-> 5, affected |-> 2, discount |-> 0]>>
    /\ is_satisfied(last.condition, prev)
    /\ lines[1].affected = 5

\* value of the line's units (all of them are affected when the benefit has
\* no max_affected_items and nothing was consumed before)
LineValue(i) == unit_price(prev[i]) * prev[i].quantity

\* C15: AbsoluteDiscountBenefit.apply splits the discount D by value: every
\* (line, quantity) pair except the last one processed receives
\* round(D * price * qty / V), the last one D minus what was given; with
\* lines $30 x 1 and $20 x 1 and D = $10 the shares are $6.00 and $4.00.
C15_ProportionalSplit ==
    (/\ last.benefit.type = FIXED
     /\ last.benefit.max_affected_items = None
     /\ result.discount > 0) =>
        LET V == SumSeq([i \in LineIds |-> LineValue(i)])
            D == result.discount
        IN  /\ \E l \in LineIds :
                  /\ \A i \in LineIds \ {l} :
                        AppliedDiscount(i) = (D * LineValue(i)) \div V
                  /\ AppliedDiscount(l) = D - (SumApplied - AppliedDiscount(l))
            /\ (prev = <<NewLine(3, 1), NewLine(2, 1)>> /\ D = 1000) =>
                  AppliedDiscount(1) = 600 /\ AppliedDiscount(2) = 400

\* the apply() call observed in SpecBudget
BudgetCalled == last # NoOffer /\ "max_total_discount" \in DOMAIN last

\* the lines the benefit can discount, and the units it may take of them
BenefitLine(i) ==
    /\ contains_product(last.benefit.range, Catalogue[prev[i].product])
    /\ can_apply_benefit(prev[i])
    /\ unit_price(prev[i]) > 0
    /\ prev[i].quantity - prev[i].affected > 0

Admissions ==
    {q \in [1..Len(prev) -> 0..MaxBudgetQty + 1] :
        \A i \in 1..Len(prev) :
            q[i] <= (IF BenefitLine(i)
                     THEN prev[i].quantity - prev[i].affected ELSE 0)}

Units(q) == SumSeq([i \in 1..Len(prev) |-> q[i]])

\* the item budget in force: max_affected_items, none when that is unset or 0
ItemBudget ==
    IF last.benefit.max_affected_items \in {None, 0}
    THEN EffectiveMaxDefault ELSE last.benefit.max_affected_items

\* V: the value of the units admitted cheapest-first by the item budget, that
\* is the least value of as many units as the budget and the lines allow
AdmittedValue ==
    LET most == CHOOSE n \in 0..(2 * (MaxBudgetQty + 1)) :
                    /\ \E q \in Admissions : Units(q) = n
                    /\ n <= ItemBudget
                    /\ \A q \in Admissions :
                          Units(q) <= ItemBudget => Units(q) <= n
    IN  MinOf({SumSeq([i \in 1..Len(prev) |-> unit_price(prev[i]) * q[i]]) :
                  q \in {a \in Admissions : Units(a) = most}})

C17_PercentageBudgets ==
    (BudgetCalled /\ last.benefit.type = PERCENTAGE) =>
        LET cap == last.max_total_discount
        IN  /\ last.benefit.max_affected_items # None =>
                  SumConsumed <= last.benefit.max_affected_items
            /\ cap # None => SumApplied <= cap
            /\ SumApplied = result.discount
            /\ Len(prev) = 1 =>
                  LET full == (last.benefit.value * unit_price(prev[1])
                                 * ConsumedUnits(1)) \div 100
                  IN  AppliedDiscount(1)
                        = IF cap # None THEN Min(full, cap) ELSE full

\* C18: shipping_discount(charge) is min(charge, value) for the absolute
\* benefit, max(0, charge - value) for the fixed-price benefit, and for the
\* percentage benefit charge * value / 100 rounded with the benefit rounding
\* rule, which truncates to 2 decimal places.
C18_ShippingAmounts ==
    (last # NoOffer /\ "charge" \in DOMAIN last) =>
        LET charge == last.charge
            value == last.benefit.value
        IN  /\ last.benefit.type = SHIPPING_ABSOLUTE =>
                  result.discount = Min(charge, value)
            /\ last.benefit.type = SHIPPING_FIXED_PRICE =>
                  result.discount = Max(0, charge - value)
            /\ last.benefit.type = SHIPPING_PERCENTAGE =>
                  result.discount = (charge * value) \div 100

\* the product asked about, resolved to its parent if it is a child
AskedProduct ==
    LET product == ProductById(rangeObj.asked)
    IN  IF product.parent # None THEN ProductById(product.parent) ELSE product

\* the decision the Range definition, as it is stored now, gives for the
\* product asked about
DefinitionSays ==
    IF AskedProduct.id \in rangeObj.excluded_products THEN FALSE
    ELSE IF rangeObj.includes_all_products THEN TRUE
    ELSE IF AskedProduct.product_class_id \in rangeObj.classes THEN TRUE
    ELSE IF AskedProduct.id \in rangeObj.included_products THEN TRUE
    ELSE \E category \in AskedProduct.categories :
            \E test_category \in rangeObj.included_categories :
                category = test_category
                    \/ is_descendant_of(category, test_category)

\* no memoized id set is out of date
MemoCurrent ==
    /\ rangeObj.cached_included_product_ids.fetched =>
          rangeObj.cached_included_product_ids.ids
              = get_pks_and_child_pks(rangeObj.included_products)
    /\ rangeObj.cached_excluded_product_ids.fetched =>
          rangeObj.cached_excluded_product_ids.ids
              = get_pks_and_child_pks(rangeObj.excluded_products)

\* C19: Range.contains(product) resolves a child product to its parent and
\* decides in this order: false if the id is excluded (also when the range
\* includes all products); else true if the range includes all products, or
\* the product class is in the class set, or the id is in the included set,
\* or a category of the product equals or descends from an included
\* category; else false.  (On an object whose memoized sets are current.)
C19_ContainsDecision ==
    (rangeObj.asked # None /\ MemoCurrent) => rangeObj.answer = DefinitionSays

\* the child of an excluded product is not in a range of all products
C19_Witness ==
    /\ rangeObj.asked = ChildProduct.id
    /\ MemoCurrent
    /\ rangeObj.includes_all_products
    /\ rangeObj.excluded_products = {2}
    /\ rangeObj.answer = FALSE

\* C20: after add_product, remove_product or a change of the excluded set
\* on a Range object, the next contains(p) on that object reflects the new
\* definition, also when contains was called on it before the change.
C20_ContainsAfterChange ==
    rangeObj.asked # None => rangeObj.answer = DefinitionSays

\* what the applications before the observed one left for its condition:
\* unconsumed applicable units, their value, and the distinct applicable
\* products that still have an unconsumed unit
C21_Left(i) ==
    IF can_apply_condition(last.condition, prev[i])
    THEN prev[i].quantity - prev[i].affected ELSE 0

C21_UnitsLeft == SumSeq([i \in 1..Len(prev) |-> C21_Left(i)])

C21_ValueLeft ==
    SumSeq([i \in 1..Len(prev) |-> unit_price(prev[i]) * C21_Left(i)])

C21_ProductsLeft ==
    Cardinality({prev[i].product : i \in {j \in 1..Len(prev) : C21_Left(j) > 0}})

C21_BelowThreshold ==
    \/ last.condition.type = COUNT /\ C21_UnitsLeft < last.condition.value
    \/ last.condition.type = VALUE /\ C21_ValueLeft < last.condition.value
    \/ last.condition.type = COVERAGE /\ C21_ProductsLeft < last.condition.value

\* C21: an offer applied after others sees only what they left unconsumed:
\* when the unconsumed applicable units (Count), their value (Value) or the
\* distinct products still available (Coverage) are below its condition's
\* threshold, apply_benefit returns the zero discount and changes no line.
C21_LaterSeesConsumption ==
    (last # NoOffer /\ C21_BelowThreshold) =>
        /\ result = ZERO_DISCOUNT
        /\ lines = prev

\* the basket as it was put together would have met the threshold, but an
\* earlier offer consumed units and the later offer got nothing
C21_Witness ==
    /\ earlier = 1
    /\ last # NoOffer
    /\ C21_BelowThreshold
    /\ \E i \in LineIds : prev[i].affected > 0
    /\ is_satisfied(last.condition,
                    [i \in 1..Len(prev) |-> [prev[i] EXCEPT !.affected = 0]])
    /\ result = ZERO_DISCOUNT
    /\ lines = prev

\* C22: after any sequence of offer applications the discount accumulated on
\* a line never exceeds its unit price times the quantity affected on it, so
\* that no line's discounted total is negative; in particular the remainder
\* the absolute and the fixed-price benefit give to the last line is at most
\* that line's price times its quantity.
C22_DiscountWithinLineValue ==
    \A i \in LineIds :
        /\ lines[i].discount <= unit_price(lines[i]) * lines[i].affected
        /\ lines[i].discount <= unit_price(lines[i]) * lines[i].quantity

\* C23: an application that contributes nothing leaves the basket untouched:
\* whenever apply_benefit returns a basket discount of amount 0 (also for a
\* percentage discount whose line amounts all round down to 0.00), no line's
\* consumed quantity has changed.
C23_ZeroChangesNothing ==
    (last # NoOffer /\ result.affects = BASKET /\ result.discount = 0) =>
        \A i \in LineIds : lines[i].affected = prev[i].affected

\* C24: when the concurrent record_usage calls on one offer have all
\* completed, no update is lost: num_applications, total_discount and
\* num_orders of the row are their initial values plus the sum of all the
\* increments, in every interleaving.
C24_NoLostUpdate ==
    (\A p \in DOMAIN pc : pc[p] \in {"done", "skipped"}) =>
        /\ db.num_applications = offer0.num_applications + tally.freq
        /\ db.total_discount = offer0.total_discount + tally.discount
        /\ db.num_orders = offer0.num_orders + tally.orders

\* C25: with the caps fixed, an offer whose status is Consumed is available
\* to no user at no time, and under any further record_usage, suspend and
\* unsuspend calls its status is never Open again.
C25_ConsumedStaysUsedUp ==
    /\ [](offer.status = CONSUMED =>
             \A user \in UsersOrNone : \A t \in Times :
                 ~is_available(offer, user, t, ledger))
    /\ [](offer.status = CONSUMED => [](offer.status # OPEN))

\* a used-up offer without a window was suspended and unsuspended: it is
\* Consumed again
C25_Witness ==
    /\ op = "unsuspend"
    /\ offer.status = CONSUMED
    /\ offer.start_datetime = None /\ offer.end_datetime = None
    /\ offer.num_applications >= 2
    /\ \A user \in UsersOrNone : \A t \in Times :
          ~is_available(offer, user, t, ledger)

\* what the condition matches in the basket as it is now: unconsumed
\* applicable units for a count condition, their value for a value condition
C26_Matched ==
    IF condObj.condition.type = COUNT
    THEN CountMatches(condObj.condition, lines, Len(lines))
    ELSE ValueMatches(condObj.condition, lines, Len(lines))

\* C26: for one CountCondition or ValueCondition object, whatever calls of
\* is_satisfied, is_partially_satisfied and get_upsell_message and changes of
\* the basket came before, is_satisfied and is_partially_satisfied are never
\* both true for the same basket state, and is_partially_satisfied is
\* 0 < matched < threshold on the basket as it is.
C26_PartialIsCurrent ==
    /\ ~(/\ condObj.asked_satisfied /\ condObj.satisfied
         /\ condObj.asked_partially /\ condObj.partially)
    /\ condObj.asked_partially =>
          (condObj.partially <=>
              (0 < C26_Matched /\ C26_Matched < condObj.condition.value))

\* the lines Condition.get_applicable_lines returns for the observed call:
\* the lines the condition can apply to that have a price
C27_Applicable(i) ==
    /\ can_apply_condition(last.condition, prev[i])
    /\ unit_price(prev[i]) > 0

C27_UnitsAvailable ==
    SumSeq([i \in 1..Len(prev) |->
        IF C27_Applicable(i) THEN prev[i].quantity - prev[i].affected ELSE 0])

\* C27: CountCondition.consume_items draws units from the applicable lines in
\* descending unit-price order: when enough unconsumed applicable units exist
\* it consumes exactly max(0, threshold - k) units, and when it has consumed
\* a unit of a line, every applicable line with a strictly higher unit price
\* has no unconsumed quantity left.
C27_MostExpensiveFirst ==
    (ConsumeCalled /\ last.condition.type = COUNT) =>
        LET need == Max(0, last.condition.value - BenefitUnits)
        IN  /\ C27_UnitsAvailable >= need => SumConsumed = need
            /\ \A i \in LineIds :
                  ConsumedUnits(i) > 0 =>
                      /\ C27_Applicable(i)
                      /\ \A j \in LineIds :
                            (/\ C27_Applicable(j)
                             /\ unit_price(prev[j]) > unit_price(prev[i])) =>
                                lines[j].affected = lines[j].quantity

\* the dearer line was used up and the rest was drawn from the cheaper one,
\* which keeps an unconsumed unit
C27_Witness ==
    /\ ConsumeCalled
    /\ last.condition.type = COUNT
    /\ \E i, j \in LineIds :
          /\ unit_price(prev[j]) > unit_price(prev[i])
          /\ ConsumedUnits(j) > 0
          /\ ConsumedUnits(i) > 0
          /\ lines[i].affected < lines[i].quantity

\* the products of the lines the benefit touched (affected_lines)
C28_Touched ==
    {prev[last.affected_lines[n][1]].product : n \in 1..Len(last.affected_lines)}

\* the other products the condition applies to that still have a line with
\* an unconsumed unit
C28_Others ==
    {prev[i].product : i \in {j \in 1..Len(prev) :
        /\ can_apply_condition(last.condition, prev[j])
        /\ prev[j].quantity - prev[j].affected > 0}} \ C28_Touched

C28_Drawn == {i \in LineIds : ConsumedUnits(i) # 0}

\* C28: CoverageCondition.consume_items, the benefit's affected lines having
\* touched m distinct products, consumes exactly 1 unit of each of
\* min(max(0, threshold - m), number of other applicable products still
\* available) further distinct products: never 2 units of one product, never
\* a unit of a product the benefit touched.
C28_OneUnitPerProduct ==
    (ConsumeCalled /\ last.condition.type = COVERAGE) =>
        /\ \A i \in C28_Drawn : ConsumedUnits(i) = 1
        /\ \A i, j \in C28_Drawn : i # j => prev[i].product # prev[j].product
        /\ \A i \in C28_Drawn : prev[i].product \notin C28_Touched
        /\ Cardinality(C28_Drawn)
             = Min(Max(0, last.condition.value - Cardinality(C28_Touched)),
                   Cardinality(C28_Others))

\* the lines of the condition's range whose units the condition counts
C29_InRange(i) == can_apply_condition(last.condition, prev[i])

C29_Unconsumed(i) == prev[i].quantity - prev[i].affected

\* unconsumed units of the range that are cheaper than those of line i (of
\* lines of one price, the one that comes first in the basket goes first)
C29_CheaperUnits(i) ==
    SumSeq([j \in 1..Len(prev) |->
        IF C29_InRange(j) /\ j # i /\ Before(prev, j, i, FALSE)
        THEN C29_Unconsumed(j) ELSE 0])

\* how many of the n cheapest unconsumed units of the range are on line i
C29_Covered(i) ==
    IF C29_InRange(i)
    THEN Max(0, Min(C29_Unconsumed(i),
                    last.condition.value - C29_CheaperUnits(i)))
    ELSE 0

C29_V == SumSeq([i \in 1..Len(prev) |-> unit_price(prev[i]) * C29_Covered(i)])

\* C29: FixedPriceBenefit.apply with a satisfied CountCondition of threshold
\* n covers the n cheapest unconsumed units of the condition's range, of
\* total value V, returns max(0, V - fixed price) and, when that is positive,
\* consumes exactly those n units; with a ValueCondition it returns the zero
\* discount and changes no line.
C29_FixedPriceCover ==
    (last.benefit.type = FIXED_PRICE /\ is_satisfied(last.condition, prev)) =>
        /\ last.condition.type = COUNT =>
              /\ result = BasketDiscount(Max(0, C29_V - last.benefit.value))
              /\ IF C29_V > last.benefit.value
                 THEN /\ \A i \in LineIds : ConsumedUnits(i) = C29_Covered(i)
                      /\ SumConsumed = last.condition.value
                 ELSE lines = prev
        /\ last.condition.type = VALUE =>
              result = ZERO_DISCOUNT /\ lines = prev

\* the lines of the benefit's range that can be discounted: priced, with an
\* unconsumed unit
C30_Applicable ==
    {i \in 1..Len(prev) :
        /\ contains_product(last.benefit.range, Catalogue[prev[i].product])
        /\ can_apply_benefit(prev[i])
        /\ unit_price(prev[i]) > 0
        /\ prev[i].quantity - prev[i].affected > 0}

\* C30: MultibuyDiscountBenefit.apply returns the unit price of the cheapest
\* applicable line of its range as the discount and applies it to 1 unit of
\* that line, and the condition then consumes; with a satisfied
\* CountCondition of threshold n over the same range exactly n units are
\* consumed in all, 1 by the benefit and n - 1 by the condition.
C30_CheapestFree ==
    (/\ last.benefit.type = MULTIBUY
     /\ is_satisfied(last.condition, prev)
     /\ C30_Applicable # {}) =>
        /\ \E c \in C30_Applicable :
              /\ \A j \in C30_Applicable :
                    unit_price(prev[c]) <= unit_price(prev[j])
              /\ result = BasketDiscount(unit_price(prev[c]))
              /\ AppliedDiscount(c) = unit_price(prev[c])
              /\ ConsumedUnits(c) >= 1
              /\ \A j \in LineIds \ {c} : AppliedDiscount(j) = 0
        /\ (/\ last.condition.type = COUNT
            /\ last.condition.range = last.benefit.range) =>
                SumConsumed = last.condition.value

====
